---- MODULE Spec2Model ----
(***************************************************************************)
(* Configuration resolution of SuhaibParameterStoreClient (package config): *)
(* ParameterStoreConfig.Init, setValueIfEmpty and                           *)
(* simpleRetrieveParameterWithTimeout of config/helper.go, with the gRPC    *)
(* transport functions and os.Getenv as the environment of the program.     *)
(***************************************************************************)
EXTENDS Integers, Sequences, FiniteSets, TLC

\* Number of goroutines that call Init.
NumCallers == 1

Callers == 1 .. NumCallers

\* ------------------------------------------------------------------ inputs

\* The slots of the application: the two of the README's example.
Slots == {"APIKey", "DBPassword"}

\* Field values of the slots: every slot has its own key and its own
\* environment variable name.
KeyOf(s) == IF s = "APIKey" THEN "my-app/api-key" ELSE "my-app/db-password"
SecretOf(s) == "secret-password"
EnvKeyOf(s) == IF s = "APIKey" THEN "MY_APP_API_KEY" ELSE "MY_APP_DB_PASSWORD"

\* Values a slot can be pre-populated with, values the transport can return
\* and values the environment can hold ("" is the unset variable).
PresetValues == {"", "pre-filled-value"}
RemoteValues == {"", "value-from-param-store"}
EnvValues == {"", "value-from-env"}

\* The certificate path triples of a slot: none, all three, only the first.
CertTriples ==
    { <<"", "", "">>, <<"client.crt", "client.key", "ca.crt">>, <<"client.crt", "", "">> }

\* The ParameterStoreConfig struct.
ParameterStoreConfig(s, value, useEmpty, certs) ==
    [ ParameterStoreKey           |-> KeyOf(s),
      ParameterStoreSecret        |-> SecretOf(s),
      EnvironmentVariableKey      |-> EnvKeyOf(s),
      ParameterStoreValue         |-> value,
      ParameterStoreUseEmptyValue |-> useEmpty,
      ClientCertFile              |-> certs[1],
      ClientKeyFile               |-> certs[2],
      CACertFile                  |-> certs[3] ]

\* ------------------------------------------------------------------ errors

\* A nil error, the sentinel context.DeadlineExceeded, an error of the
\* transport, and the errors the package builds itself.
NilErr == [kind |-> "nil", msg |-> ""]
DeadlineExceeded == [kind |-> "DeadlineExceeded", msg |-> "context deadline exceeded"]
TransportErr == [kind |-> "error", msg |-> "param-store-failed"]
TransportErrors == {NilErr, DeadlineExceeded, TransportErr}

\* The error of the mTLS transport that cannot read its certificate files.
CertLoadErr == [kind |-> "error", msg |-> "failed to load client cert"]

\* The errors a transport can return: the mTLS one, or the plain one.
TransportErrorsOf(mtls) ==
    IF mtls THEN TransportErrors \cup {CertLoadErr} ELSE TransportErrors

\* errors.New(msg)
ErrorsNew(msg) == [kind |-> "error", msg |-> msg]

\* fmt.Errorf("parameter store operation timed out: %w", err)
TimedOutErrorf(err) ==
    [kind |-> "wrapped", msg |-> "parameter store operation timed out: " \o err.msg]

\* ------------------------------------------------- pure parts of helper.go

\* The host, port and timeout (in seconds) the application passes to every
\* Init call.
Endpoints ==
    { [host |-> "localhost", port |-> 1234, timeout |-> 3],
      [host |-> "localhost", port |-> 50051, timeout |-> 3] }

\* fmt.Sprintf("%s:%v", paramStoreHost, paramStorePort)
ServerAddressHostOnly(paramStoreHost, paramStorePort) == paramStoreHost

ServerAddress(paramStoreHost, paramStorePort) ==
    paramStoreHost \o ":" \o ToString(paramStorePort)

\* The arguments of a transport call, after its context.
TransportArgs(serverAddress, secret, key) ==
    [serverAddress |-> serverAddress, secret |-> secret, key |-> key]

NoTransportArgs == TransportArgs("", "", "")

\* value != "" : the test Init and setValueIfEmpty make on the current value.
HasValueSkipped(value) == FALSE

HasValue(value) == value # ""

\* c.ParameterStoreUseEmptyValue : the second early return of Init.
UseEmptyValueIgnored(cfg) == FALSE

UseEmptyValue(cfg) == cfg.ParameterStoreUseEmptyValue

\* clientCertFile != "" && clientKeyFile != "" && caCertFile != ""
UseMTLSAnyCert(cfg) ==
    cfg.ClientCertFile # "" \/ cfg.ClientKeyFile # "" \/ cfg.CACertFile # ""

UseMTLS(cfg) ==
    cfg.ClientCertFile # "" /\ cfg.ClientKeyFile # "" /\ cfg.CACertFile # ""

\* The tail of simpleRetrieveParameterWithTimeout: an error of the transport
\* with the deadline elapsed is wrapped as a timeout and the value dropped.
ClassifyTimeoutKeepsValue(value, err, elapsed) ==
    IF err # NilErr /\ elapsed
    THEN [value |-> value, err |-> TimedOutErrorf(err)]
    ELSE [value |-> value, err |-> err]

ClassifyTimeout(value, err, elapsed) ==
    IF err # NilErr /\ elapsed
    THEN [value |-> "", err |-> TimedOutErrorf(err)]
    ELSE [value |-> value, err |-> err]

\* What the transport returned, as setValueIfEmpty and its callers tell the
\* cases apart: a value, nothing, an error after the deadline, another error.
RemoteOutcome(tValue, tErr, elapsed) ==
    IF tErr = NilErr THEN (IF tValue # "" THEN "value" ELSE "empty")
    ELSE IF elapsed THEN "timeout" ELSE "error"

\* err == nil && value != "" : the parameter store provided the value.
RemoteHitAcceptsEmpty(value, err) == err = NilErr

RemoteHitNever(value, err) == FALSE

RemoteHit(value, err) == err = NilErr /\ value # ""

\* Where setValueIfEmpty goes after the retrieve: it returns the value of the
\* parameter store, or looks the environment variable up.
AfterRetrieveRetrying(value, err) ==
    IF RemoteHit(value, err) THEN "finish"
    ELSE IF err # NilErr THEN "retrieve" ELSE "getenv"

AfterRetrieveEnvAlways(value, err) == "getenv"

AfterRetrieveFailFast(value, err) ==
    IF err # NilErr \/ RemoteHit(value, err) THEN "finish" ELSE "getenv"

AfterRetrieve(value, err) ==
    IF RemoteHit(value, err) THEN "finish" ELSE "getenv"

\* The line setValueIfEmpty logs for the error of the retrieve: the timeout
\* line when err == context.DeadlineExceeded, a comparison of the error
\* value itself, and the "Failed to retrieve" line for every other error.
RetrieveLog(err) ==
    IF err = NilErr THEN "none"
    ELSE IF err = DeadlineExceeded THEN "timeout"
    ELSE "failed"

\* The name setValueIfEmpty hands to osGetenvFunc.
GetenvArgIsStoreKey(cfg) == cfg.ParameterStoreKey

GetenvArg(cfg) == cfg.EnvironmentVariableKey

\* value != "" after the environment lookup.
EnvHitAcceptsEmpty(value) == TRUE

EnvHit(value) == value # ""

\* err != nil : the test Init makes before it panics.
IsFatalNever(err) == FALSE

IsFatal(err) == err # NilErr

\* c.ParameterStoreValue = retrievedValue : the slot after the assignment.
SetParameterStoreValueResets(cfg, retrievedValue) ==
    [cfg EXCEPT !.ParameterStoreValue = retrievedValue,
                !.ParameterStoreSecret = "",
                !.ParameterStoreUseEmptyValue = FALSE]

SetParameterStoreValue(cfg, retrievedValue) ==
    [cfg EXCEPT !.ParameterStoreValue = retrievedValue]

\* c.ParameterStoreValue = retrievedValue : what Init assigns to the slot.
StoredValueDropped(retrievedValue) == ""

StoredValue(retrievedValue) == retrievedValue

\* The message of the error setValueIfEmpty returns when nothing provided a
\* value (fmt.Sprintf with two %s verbs).
UnresolvedMessageSwapped(parameterStoreKey, envVarKey) ==
    "Failed to retrieve value for parameter store key '" \o envVarKey
        \o "' (checked env var '" \o parameterStoreKey
        \o "'). Neither parameter store nor environment variable provided a value."

UnresolvedMessage(parameterStoreKey, envVarKey) ==
    "Failed to retrieve value for parameter store key '" \o parameterStoreKey
        \o "' (checked env var '" \o envVarKey
        \o "'). Neither parameter store nor environment variable provided a value."

\* ------------------------------ endpoint construction: psclient.go, client.go

\* A nil pointer, and a pointer to x.
Nil == <<>>
Ref(x) == <<x>>

\* fmt.Errorf of a message with no wrapped error.
FmtErrorf(msg) == [kind |-> "error", msg |-> msg]

\* time.Duration values are counted in seconds: 30 * time.Second, the default
\* of NewParameterStoreClient and the default of NewClient.
DefaultTimeout == 30
NewClientDefaultTimeout == 30

\* The arguments the constructors are called with.
Hosts == {"", "localhost"}
Ports == {-1, 0, 50051}
Timeouts == {-5, 0, 5, 30, 45}

\* A CertificateSource: nothing, a file path, or the bytes themselves.
NoCertificate == [FilePath |-> "", Bytes |-> <<>>]
CertificateSources ==
    { NoCertificate,
      [FilePath |-> "cert.pem", Bytes |-> <<>>],
      [FilePath |-> "", Bytes |-> <<45, 45>>] }

\* CertificateSource.IsProvided
IsProvided(cs) == cs.FilePath # "" \/ Len(cs.Bytes) > 0

\* The first two checks of NewParameterStoreClient.
HostIsEmptyUnchecked(host) == FALSE

HostIsEmpty(host) == host = ""

PortIsInvalidZeroAllowed(port) == port < 0

PortIsInvalid(port) == port <= 0

\* The timeout NewParameterStoreClient stores.
EffectiveTimeoutNoDefault(timeout) == timeout

EffectiveTimeout(timeout) == IF timeout <= 0 THEN DefaultTimeout ELSE timeout

\* Part of the mTLS configuration is provided, and not all of it.
PartialMTLSOnlyAlone(clientCertProvided, clientKeyProvided, caCertProvided) ==
    /\ clientCertProvided \/ clientKeyProvided \/ caCertProvided
    /\ ~(clientCertProvided \/ clientKeyProvided)

PartialMTLS(clientCertProvided, clientKeyProvided, caCertProvided) ==
    /\ clientCertProvided \/ clientKeyProvided \/ caCertProvided
    /\ ~(clientCertProvided /\ clientKeyProvided /\ caCertProvided)

\* NewParameterStoreClient: the client (nil or a pointer) and the error.
NewParameterStoreClient(host, port, timeout, clientCert, clientKey, caCert) ==
    IF HostIsEmpty(host)
    THEN [client |-> Nil, err |-> FmtErrorf("host cannot be empty")]
    ELSE IF PortIsInvalid(port)
    THEN [client |-> Nil, err |-> FmtErrorf("port must be a positive integer")]
    ELSE IF PartialMTLS(IsProvided(clientCert), IsProvided(clientKey),
                        IsProvided(caCert))
    THEN [client |-> Nil,
          err |-> FmtErrorf("for mTLS, client certificate, client key, and CA certificate must all be provided")]
    ELSE [client |-> Ref([Host |-> host, Port |-> port,
                          Timeout |-> EffectiveTimeout(timeout),
                          ClientCert |-> clientCert, ClientKey |-> clientKey,
                          CACert |-> caCert]),
          err |-> NilErr]

\* A TLSConfig of the client package: the separate certificates, the PKCS#12
\* file or bytes, and whether a password callback is set.
TLSConfig(clientCert, clientKey, caCert, p12File, p12Bytes, hasPasswordFn) ==
    [ClientCert |-> clientCert, ClientKey |-> clientKey, CACert |-> caCert,
     P12File |-> p12File, P12Bytes |-> p12Bytes, P12PasswordFn |-> hasPasswordFn]

SomeCertificate == [FilePath |-> "cert.pem", Bytes |-> <<>>]

TLSConfigs ==
    { TLSConfig(NoCertificate, NoCertificate, NoCertificate, "", <<>>, FALSE),
      TLSConfig(SomeCertificate, SomeCertificate, SomeCertificate, "", <<>>, FALSE),
      TLSConfig(SomeCertificate, NoCertificate, NoCertificate, "", <<>>, FALSE),
      TLSConfig(NoCertificate, NoCertificate, NoCertificate, "client.p12", <<>>, TRUE),
      TLSConfig(NoCertificate, NoCertificate, NoCertificate, "client.p12", <<>>, FALSE),
      TLSConfig(SomeCertificate, SomeCertificate, SomeCertificate, "client.p12", <<>>, TRUE) }

\* TLSConfig.hasP12Config, hasSeparateCertConfig and IsConfigured
HasP12Config(tc) == tc.P12File # "" \/ Len(tc.P12Bytes) > 0
HasSeparateCertConfig(tc) ==
    IsProvided(tc.ClientCert) /\ IsProvided(tc.ClientKey) /\ IsProvided(tc.CACert)
IsConfigured(tc) == HasP12Config(tc) \/ HasSeparateCertConfig(tc)

\* Client.validateTLSConfig, for a client whose TLSConfig is not nil.
ValidateTLSConfig(tc) ==
    IF HasP12Config(tc) /\ HasSeparateCertConfig(tc)
    THEN FmtErrorf("cannot specify both P12 and separate cert/key configurations")
    ELSE IF ~HasP12Config(tc) /\ ~HasSeparateCertConfig(tc)
    THEN FmtErrorf("TLS configuration provided but no certificates specified")
    ELSE IF HasP12Config(tc) /\ ~tc.P12PasswordFn
    THEN FmtErrorf("P12 configuration requires a password callback function")
    ELSE NilErr

\* The options of NewClient: WithTimeout(timeout) and WithTLS(tlsConfig).
WithTimeoutOption(timeout) ==
    [opt |-> "WithTimeout", timeout |-> timeout, tlsConfig |-> Nil]
WithTLSOption(tlsConfig) ==
    [opt |-> "WithTLS", timeout |-> 0, tlsConfig |-> tlsConfig]

ClientOptions ==
    {WithTimeoutOption(t) : t \in Timeouts}
      \cup {WithTLSOption(Ref(tc)) : tc \in TLSConfigs}
      \cup {WithTLSOption(Nil)}

\* The lists of options a call passes: none, one or two.
OptionLists ==
    {<<>>} \cup {<<o>> : o \in ClientOptions}
           \cup {<<o, p>> : o \in ClientOptions, p \in {WithTimeoutOption(t) : t \in Timeouts}}

\* The function WithTimeout returns, applied to a client.
WithTimeoutAlways(client, timeout) == [client EXCEPT !.Timeout = timeout]

WithTimeout(client, timeout) ==
    IF timeout > 0 THEN [client EXCEPT !.Timeout = timeout] ELSE client

\* The function WithTLS returns, applied to a client.
WithTLS(client, tlsConfig) == [client EXCEPT !.TLSConfig = tlsConfig]

\* The loop of NewClient over its options.
RECURSIVE ApplyOptions(_, _)
ApplyOptions(client, opts) ==
    IF opts = <<>> THEN client
    ELSE LET o == Head(opts) IN
         ApplyOptions(IF o.opt = "WithTimeout"
                      THEN WithTimeout(client, o.timeout)
                      ELSE WithTLS(client, o.tlsConfig),
                      Tail(opts))

\* NewClient of the client package: the client (nil or a pointer) and the
\* error.
NewClient(host, port, opts) ==
    IF host = ""
    THEN [client |-> Nil, err |-> FmtErrorf("host cannot be empty")]
    ELSE IF port <= 0
    THEN [client |-> Nil, err |-> FmtErrorf("port must be a positive integer")]
    ELSE LET client == ApplyOptions([Host |-> host, Port |-> port,
                                     Timeout |-> NewClientDefaultTimeout,
                                     TLSConfig |-> Nil], opts)
         IN  IF client.TLSConfig # Nil
                  /\ ValidateTLSConfig(client.TLSConfig[1]) # NilErr
             THEN [client |-> Nil,
                   err |-> FmtErrorf("invalid TLS configuration: "
                                      \o ValidateTLSConfig(client.TLSConfig[1]).msg)]
             ELSE [client |-> Ref(client), err |-> NilErr]

\* ------------------------- the gRPC client functions: client/grpc_client.go

\* The mock server of the tests and the arguments the tests call with.
CorrectPassword == "goodpass"
Passwords == {"goodpass", "wrongpass"}
StoreKeys == {"mykey", "storekey"}
RetrieveKeys == StoreKeys \cup {"nonexistentkey"}
StoreValues == {"myvalue", "storevalue"}
BufnetAddress == "bufnet"

\* status.Errorf(code, desc), as the client reads it.
StatusErrorf(code, desc) ==
    [kind |-> "status", msg |-> "rpc error: code = " \o code \o " desc = " \o desc]

\* The error the tests make the server simulate, the error of a connection
\* that cannot be made, and the error of a call to a server that is gone.
InternalErr == StatusErrorf("Internal", "internal server failure")
DialErr == [kind |-> "error", msg |-> "connection refused"]
UnavailableErr == StatusErrorf("Unavailable", "connection error")

\* fmt.Errorf(prefix + "%w", err)
WrapErrorf(prefix, err) == [kind |-> "wrapped", msg |-> prefix \o err.msg]

\* newMockServer(password): an empty store and no simulated error.
NewMockServer(password) ==
    [store |-> <<>>, correctPassword |-> password,
     simulateError |-> NilErr, running |-> TRUE]

\* The requests of the two calls.
RetrieveRequestSwapped(key, password) == [Key |-> password, Password |-> key]

RetrieveRequest(key, password) == [Key |-> key, Password |-> password]

StoreRequest(key, value, password) ==
    [Key |-> key, Value |-> value, Password |-> password]

\* mockParameterStoreServer.Retrieve: the value and the error.
MockRetrieve(s, req) ==
    IF s.simulateError # NilErr
    THEN [value |-> "", err |-> s.simulateError]
    ELSE IF req.Password # s.correctPassword
    THEN [value |-> "", err |-> StatusErrorf("Unauthenticated", "invalid password")]
    ELSE IF req.Key \notin DOMAIN s.store
    THEN [value |-> "",
          err |-> StatusErrorf("NotFound", "key not found: " \o req.Key)]
    ELSE [value |-> s.store[req.Key], err |-> NilErr]

\* s.store[req.Key] = req.Value
StorePut(store, key, value) ==
    [k \in DOMAIN store \cup {key} |-> IF k = key THEN value ELSE store[k]]

\* The store without key.
StoreDrop(store, key) == [k \in DOMAIN store \ {key} |-> store[k]]

\* mockParameterStoreServer.Store: the store after the call, and the error.
MockStore(s, req) ==
    IF s.simulateError # NilErr
    THEN [store |-> s.store, err |-> s.simulateError]
    ELSE IF req.Password # s.correctPassword
    THEN [store |-> s.store,
          err |-> StatusErrorf("Unauthenticated", "invalid password")]
    ELSE [store |-> StorePut(s.store, req.Key, req.Value), err |-> NilErr]

\* What can go wrong with one call outside the server's handler: nothing,
\* a context that has expired before dial, a connection that dial cannot
\* set up, a deadline that passes after the handler has run and before its
\* response arrives, or, with the server stopped, a connection that cannot
\* be used.
FaultsOf(running) ==
    IF running THEN {"none", "expired", "dial", "lost"}
    ELSE {"expired", "dial", "unavailable"}

\* The error of a call whose deadline has passed.
DeadlineStatusErr == StatusErrorf("DeadlineExceeded", "context deadline exceeded")

\* The error at the root of a fault.
FaultCause(fault) ==
    IF fault = "expired" THEN DeadlineExceeded
    ELSE IF fault = "dial" THEN DialErr
    ELSE IF fault = "unavailable" THEN UnavailableErr
    ELSE IF fault = "lost" THEN DeadlineStatusErr
    ELSE NilErr

\* dial: the error it returns.
Dial(fault, serverAddr) ==
    IF fault = "expired"
    THEN WrapErrorf("gRPC dial context for " \o serverAddr
                      \o " already expired/canceled: ", DeadlineExceeded)
    ELSE IF fault = "dial"
    THEN WrapErrorf("failed to connect to gRPC server at " \o serverAddr \o ": ",
                    DialErr)
    ELSE NilErr

\* The return of GrpcSimpleRetrieve after client.Retrieve gave value and err.
RetrieveReturnSwallowsError(value, err) == [val |-> value, err |-> NilErr]

RetrieveReturn(value, err) ==
    IF err # NilErr
    THEN [val |-> "", err |-> WrapErrorf("gRPC retrieve call failed: ", err)]
    ELSE [val |-> value, err |-> NilErr]

\* The return of GrpcSimpleStore after client.Store gave err.
StoreReturn(err) ==
    IF err # NilErr THEN WrapErrorf("gRPC store call failed: ", err) ELSE NilErr

\* GrpcSimpleRetrieve against the server s: val, err, and the error at the
\* root of err.
GrpcSimpleRetrieve(s, fault, serverAddr, AuthenticationPassword, key) ==
    IF Dial(fault, serverAddr) # NilErr
    THEN [val |-> "", err |-> Dial(fault, serverAddr),
          cause |-> FaultCause(fault)]
    ELSE LET resp == IF fault \in {"unavailable", "lost"}
                     THEN [value |-> "", err |-> FaultCause(fault)]
                     ELSE MockRetrieve(s, RetrieveRequest(key, AuthenticationPassword))
             ret  == RetrieveReturn(resp.value, resp.err)
         IN  [val |-> ret.val, err |-> ret.err, cause |-> resp.err]

\* GrpcSimpleStore against the server s: err, the error at its root, and the
\* store of the server after the call.
GrpcSimpleStore(s, fault, serverAddr, AuthenticationPassword, key, value) ==
    IF Dial(fault, serverAddr) # NilErr
    THEN [err |-> Dial(fault, serverAddr), cause |-> FaultCause(fault),
          store |-> s.store]
    ELSE LET done == MockStore(s, StoreRequest(key, value, AuthenticationPassword))
             resp == IF fault = "unavailable"
                     THEN [store |-> s.store, err |-> UnavailableErr]
                     ELSE IF fault = "lost"
                     THEN [store |-> done.store, err |-> DeadlineStatusErr]
                     ELSE done
         IN  [err |-> StoreReturn(resp.err), cause |-> resp.err,
              store |-> resp.store]

\* ---------------------- certificate material: CertificateSource, mTLS load

\* The paths the tests use, and what a file can hold: nothing, a PEM block,
\* or bytes that are no PEM block.
CertPaths == {"client.crt", "client.key", "ca.crt"}
ValidPEM == <<45, 45>>
NotPEM == <<0>>
FileContents == {<<>>, ValidPEM, NotPEM}

\* A file system: every path has a file with some content, or no file.
NoFile == [exists |-> FALSE, data |-> <<>>]
FileOf(data) == [exists |-> TRUE, data |-> data]

\* os.ReadFile(path)
ReadFile(fs, path) ==
    IF path \in DOMAIN fs /\ fs[path].exists
    THEN [data |-> fs[path].data, err |-> NilErr]
    ELSE [data |-> <<>>,
          err |-> [kind |-> "error",
                   msg |-> "open " \o path \o ": no such file or directory"]]

\* CertificateSource.GetData: the data, the error, and the files it read.
GetDataFileFirst(cs, fs) ==
    IF cs.FilePath # ""
    THEN LET f == ReadFile(fs, cs.FilePath) IN
         IF f.err # NilErr
         THEN [data |-> <<>>,
               err |-> WrapErrorf("failed to read certificate/key from "
                                    \o cs.FilePath \o ": ", f.err),
               read |-> <<cs.FilePath>>]
         ELSE [data |-> f.data, err |-> NilErr, read |-> <<cs.FilePath>>]
    ELSE [data |-> cs.Bytes, err |-> NilErr, read |-> <<>>]

GetData(cs, fs) ==
    IF Len(cs.Bytes) > 0
    THEN [data |-> cs.Bytes, err |-> NilErr, read |-> <<>>]
    ELSE IF cs.FilePath # ""
    THEN LET f == ReadFile(fs, cs.FilePath) IN
         IF f.err # NilErr
         THEN [data |-> <<>>,
               err |-> WrapErrorf("failed to read certificate/key from "
                                    \o cs.FilePath \o ": ", f.err),
               read |-> <<cs.FilePath>>]
         ELSE [data |-> f.data, err |-> NilErr, read |-> <<cs.FilePath>>]
    ELSE [data |-> <<>>, err |-> NilErr, read |-> <<>>]

\* len(data) == 0 : the check the mTLS functions make on what GetData gave.
DataIsEmptyAccepted(data) == FALSE

DataIsEmpty(data) == Len(data) = 0

\* tls.X509KeyPair and caCertPool.AppendCertsFromPEM succeed on PEM blocks.
X509KeyPairOk(certPEMBlock, keyPEMBlock) ==
    certPEMBlock = ValidPEM /\ keyPEMBlock = ValidPEM

AppendCertsFromPEMOk(pemCerts) == pemCerts = ValidPEM

\* One material of GrpcSimpleRetrieveWithMTLS: GetData, then the check that
\* the data is not empty. name is "client certificate", "client key" or
\* "CA certificate"; the message of the empty case begins with a capital.
LoadMaterial(cs, fs, name, Name) ==
    LET g == GetData(cs, fs) IN
    IF g.err # NilErr
    THEN [data |-> <<>>,
          err |-> WrapErrorf("failed to get " \o name \o " data: ", g.err)]
    ELSE IF DataIsEmpty(g.data)
    THEN [data |-> <<>>, err |-> FmtErrorf(Name \o " data is empty")]
    ELSE [data |-> g.data, err |-> NilErr]

\* GrpcSimpleRetrieveWithMTLS with the client configuration clientConfig: val,
\* err, and the calls it made in their order (the materials it asked for,
\* and the dial function, which a context that has expired keeps it from).
GrpcSimpleRetrieveWithMTLS(s, fs, fault, serverAddr, AuthenticationPassword, key, clientConfig) ==
    LET cert == LoadMaterial(clientConfig.ClientCert, fs,
                             "client certificate", "Client certificate")
        ckey == LoadMaterial(clientConfig.ClientKey, fs,
                             "client key", "Client key")
        ca   == LoadMaterial(clientConfig.CACert, fs,
                             "CA certificate", "CA certificate")
    IN
    IF cert.err # NilErr
    THEN [val |-> "", err |-> cert.err, ops |-> <<"ClientCert">>]
    ELSE IF ckey.err # NilErr
    THEN [val |-> "", err |-> ckey.err, ops |-> <<"ClientCert", "ClientKey">>]
    ELSE IF ~X509KeyPairOk(cert.data, ckey.data)
    THEN [val |-> "",
          err |-> FmtErrorf("failed to create client TLS certificate from bytes"),
          ops |-> <<"ClientCert", "ClientKey">>]
    ELSE IF ca.err # NilErr
    THEN [val |-> "", err |-> ca.err,
          ops |-> <<"ClientCert", "ClientKey", "CACert">>]
    ELSE IF ~AppendCertsFromPEMOk(ca.data)
    THEN [val |-> "",
          err |-> FmtErrorf("failed to append CA certs to the pool from bytes: no valid certificates found"),
          ops |-> <<"ClientCert", "ClientKey", "CACert">>]
    ELSE IF fault = "expired"
    THEN [val |-> "", err |-> Dial(fault, serverAddr),
          ops |-> <<"ClientCert", "ClientKey", "CACert">>]
    ELSE IF Dial(fault, serverAddr) # NilErr
    THEN [val |-> "", err |-> Dial(fault, serverAddr),
          ops |-> <<"ClientCert", "ClientKey", "CACert", "dial">>]
    ELSE LET resp == MockRetrieve(s, RetrieveRequest(key, AuthenticationPassword))
             ret  == RetrieveReturn(resp.value, resp.err)
         IN  [val |-> ret.val, err |-> ret.err,
              ops |-> <<"ClientCert", "ClientKey", "CACert", "dial">>]

\* ------------------------------------------------------------------- state

VARIABLES
    config,   \* the ParameterStoreConfig structs, by slot
    pc,       \* where each caller is in its Init call
    frame,    \* the local variables of each caller's Init call
    obs,      \* what each caller's current (or last) Init call did
    hist,     \* how the Init calls made on each slot so far have ended
    built,    \* the last call of a constructor: its arguments and its result
    endpoint, \* the host, port and timeout the application passes to Init
    retriever, \* the client an application passes to Init instead
    server,   \* the parameter store server the gRPC client functions call
    rpc,      \* the last call of a gRPC client function and its result
    lastStored, \* for each key, the value of the last store to it, if every
              \* store to it that changed the server has succeeded
    wire,     \* each caller's call of a gRPC client function: its context,
              \* its connection and what it returned
    files,    \* the file system: for each path, whether a file is there and
              \* what it holds
    certCall  \* the last call that resolved certificate material, and its
              \* result

vars == <<config, pc, frame, obs, hist, built, endpoint, retriever,
          server, rpc, lastStored, wire, files, certCall>>

\* The server and the calls of the gRPC client functions.
grpcVars == <<server, rpc, lastStored>>

\* The variables no step of an Init call writes.
outside == <<built, endpoint, retriever, grpcVars, wire, files, certCall>>

\* The slots, their callers and what they pass to Init.
initVars == <<config, pc, frame, obs, hist, endpoint, retriever, wire, files,
             certCall>>

\* No gRPC client function has been called.
NoRpc ==
    [fn |-> "none", password |-> "", key |-> "", value |-> "", fault |-> "none",
     simulated |-> FALSE, before |-> <<>>, val |-> "", err |-> NilErr,
     cause |-> NilErr]

\* A server nothing has been stored in, and no call made.
GrpcIdle ==
    /\ server = NewMockServer(CorrectPassword)
    /\ rpc = NoRpc
    /\ lastStored = <<>>

\* The client of an application that passes host, port and timeout: none.
NoRetriever == "none"

\* No call has resolved certificate material, and no file is there.
NoCertCall == [fn |-> "none"]
NoCertCalls ==
    /\ files = <<>>
    /\ certCall = NoCertCall

\* A context without a deadline: ctx.Deadline() reports ok = false.
NoDeadline == 0

\* No call of a gRPC client function is under way.
NoWire ==
    [pc |-> "idle", ctxDeadline |-> NoDeadline, deadline |-> NoDeadline,
     expired |-> FALSE, mtls |-> FALSE, serverAddress |-> "", password |-> "",
     key |-> "", conn |-> "none", val |-> "", err |-> NilErr,
     outVal |-> "", outErr |-> NilErr]

\* No constructor has been called.
NoBuilt == [fn |-> "none", args |-> <<>>, client |-> Nil, err |-> NilErr]

\* The locals of an Init call that live from one step to the next: the slot,
\* and retrievedValue and err of Init (value and err of setValueIfEmpty are
\* read only in the step that sets them).
NoFrame ==
    [slot |-> "", paramStoreHost |-> "", paramStorePort |-> 0,
     retrievedValue |-> "", initErr |-> NilErr]

\* The record of one Init call: the slot, its value when the call began and
\* whether an earlier call on it had completed, the calls made to the two
\* transports and to osGetenvFunc with what they returned, and how the call
\* ended.
NewObs(s, value, afterOk) ==
    [ slot |-> s, pre |-> value, post |-> value, afterOk |-> afterOk,
      plain |-> 0, mtls |-> 0, call |-> NoTransportArgs,
      remote |-> "none", remoteValue |-> "", log |-> "none",
      getenv |-> 0, getenvArg |-> "", envValue |-> "",
      wrote |-> FALSE, panic |-> "" ]

NoObs == NewObs("", "", FALSE)

ConfigsOf(s, values) ==
    { ParameterStoreConfig(s, v, u, ct) : v \in values, u \in BOOLEAN, ct \in CertTriples }

TypeOK ==
    /\ \A s \in Slots :
         config[s] \in ConfigsOf(s, PresetValues \cup RemoteValues \cup EnvValues)
    /\ pc \in [Callers -> {"idle", "setValueIfEmpty", "retrieve", "getenv",
                           "finish", "returned", "panicked"}]
    /\ \A c \in Callers : frame[c].slot \in Slots \cup {""}
    /\ \A c \in Callers : obs[c].slot \in Slots \cup {""}
    /\ hist \in [Slots -> SUBSET {"ok", "fatal"}]

\* The state after construction: slots the application built, each with or
\* without a pre-populated value, and no Init call made yet.
Init ==
    /\ config \in [Slots -> UNION {ConfigsOf(s, PresetValues) : s \in Slots}]
    /\ \A s \in Slots : config[s] \in ConfigsOf(s, PresetValues)
    /\ pc = [c \in Callers |-> "idle"]
    /\ frame = [c \in Callers |-> NoFrame]
    /\ obs = [c \in Callers |-> NoObs]
    /\ hist = [s \in Slots |-> {}]
    /\ built = NoBuilt
    /\ wire = [c \in Callers |-> NoWire]
    /\ NoCertCalls
    /\ endpoint \in Endpoints
    /\ retriever = NoRetriever
    /\ GrpcIdle

\* ----------------------------------------------------------------- actions

\* A caller invokes c.Init on slot s: the two early returns of Init. A caller
\* whose previous call panicked has recovered the panic.
CallInit(c, s) ==
    /\ pc[c] \in {"idle", "returned", "panicked"}
    /\ LET cfg == config[s] IN
       IF HasValue(cfg.ParameterStoreValue) \/ UseEmptyValue(cfg)
       THEN /\ pc' = [pc EXCEPT ![c] = "returned"]
            /\ frame' = [frame EXCEPT ![c] = NoFrame]
            /\ hist' = [hist EXCEPT ![s] = @ \cup {"ok"}]
       ELSE /\ pc' = [pc EXCEPT ![c] = "setValueIfEmpty"]
            /\ frame' = [frame EXCEPT ![c] =
                   [NoFrame EXCEPT !.slot = s,
                                   !.paramStoreHost = endpoint.host,
                                   !.paramStorePort = endpoint.port]]
            /\ UNCHANGED hist
    /\ obs' = [obs EXCEPT ![c] = NewObs(s, config[s].ParameterStoreValue, "ok" \in hist[s])]
    /\ UNCHANGED <<config, outside>>

\* Init reads c.ParameterStoreValue for the call of setValueIfEmpty, which
\* returns a value that is already provided.
SetValueIfEmptyEntry(c) ==
    /\ pc[c] = "setValueIfEmpty"
    /\ LET value == config[frame[c].slot].ParameterStoreValue IN
       IF HasValue(value)
       THEN /\ pc' = [pc EXCEPT ![c] = "finish"]
            /\ frame' = [frame EXCEPT ![c].retrievedValue = value,
                                      ![c].initErr = NilErr]
       ELSE /\ pc' = [pc EXCEPT ![c] = "retrieve"]
            /\ UNCHANGED frame
    /\ UNCHANGED <<config, obs, hist, outside>>

\* simpleRetrieveParameterWithTimeout: one call of the mTLS or of the plain
\* transport, which returns tValue and tErr with the deadline elapsed or not,
\* then the checks setValueIfEmpty makes on the result.
SimpleRetrieveParameterWithTimeout(c) ==
    /\ pc[c] = "retrieve"
    /\ \E tValue \in RemoteValues, elapsed \in BOOLEAN,
          tErr \in TransportErrorsOf(UseMTLS(config[frame[c].slot])) :
         LET cfg == config[frame[c].slot]
             r   == ClassifyTimeout(tValue, tErr, elapsed)
             to  == AfterRetrieve(r.value, r.err)
         IN  /\ pc' = [pc EXCEPT ![c] = to]
             /\ frame' = [frame EXCEPT
                    ![c].retrievedValue = IF to = "finish" THEN r.value ELSE @,
                    ![c].initErr = IF to = "finish" THEN r.err ELSE NilErr]
             /\ obs' = [obs EXCEPT
                    ![c].mtls = IF UseMTLS(cfg) THEN @ + 1 ELSE @,
                    ![c].plain = IF UseMTLS(cfg) THEN @ ELSE @ + 1,
                    ![c].call = TransportArgs(
                        ServerAddress(frame[c].paramStoreHost,
                                      frame[c].paramStorePort),
                        cfg.ParameterStoreSecret, cfg.ParameterStoreKey),
                    ![c].remote = RemoteOutcome(tValue, tErr, elapsed),
                    ![c].log = RetrieveLog(r.err),
                    ![c].remoteValue = IF tErr = NilErr THEN tValue ELSE ""]
    /\ UNCHANGED <<config, hist, outside>>

\* The environment lookup of setValueIfEmpty, osGetenvFunc returning any
\* value (the empty string for a variable that is not set), and the two
\* returns that follow it.
OsGetenv(c) ==
    /\ pc[c] = "getenv"
    /\ \E value \in EnvValues :
         LET cfg == config[frame[c].slot] IN
           /\ frame' = [frame EXCEPT
                  ![c].retrievedValue = IF EnvHit(value) THEN value ELSE "",
                  ![c].initErr =
                      IF EnvHit(value) THEN NilErr
                      ELSE ErrorsNew(UnresolvedMessage(cfg.ParameterStoreKey,
                                                       cfg.EnvironmentVariableKey))]
           /\ obs' = [obs EXCEPT ![c].getenv = @ + 1,
                                 ![c].getenvArg = GetenvArg(cfg),
                                 ![c].envValue = value]
    /\ pc' = [pc EXCEPT ![c] = "finish"]
    /\ UNCHANGED <<config, hist, outside>>

\* The local variable retrievedValue of the Init call of c. The second
\* definition is the variable as one shared by every call.
RetrievedValueShared(c) ==
    LET inCall == { d \in DOMAIN frame : frame[d].slot # "" }
    IN  frame[CHOOSE d \in inCall : TRUE].retrievedValue

RetrievedValueOf(c) == frame[c].retrievedValue

\* The end of Init: panic(err), or the assignment of the retrieved value.
InitFinish(c) ==
    /\ pc[c] = "finish"
    /\ LET s == frame[c].slot IN
       IF IsFatal(frame[c].initErr)
       THEN /\ pc' = [pc EXCEPT ![c] = "panicked"]
            /\ obs' = [obs EXCEPT ![c].panic = frame[c].initErr.msg,
                                  ![c].post = config[s].ParameterStoreValue]
            /\ hist' = [hist EXCEPT ![s] = @ \cup {"fatal"}]
            /\ UNCHANGED config
       ELSE /\ pc' = [pc EXCEPT ![c] = "returned"]
            /\ config' = [config EXCEPT ![s] =
                   SetParameterStoreValue(@, StoredValue(RetrievedValueOf(c)))]
            /\ obs' = [obs EXCEPT ![c].wrote = TRUE,
                                  ![c].post = StoredValue(RetrievedValueOf(c))]
            /\ hist' = [hist EXCEPT ![s] = @ \cup {"ok"}]
    /\ frame' = [frame EXCEPT ![c] = NoFrame]
    /\ UNCHANGED outside

Next ==
    \/ \E c \in Callers, s \in Slots : CallInit(c, s)
    \/ \E c \in Callers : SetValueIfEmptyEntry(c)
    \/ \E c \in Callers : SimpleRetrieveParameterWithTimeout(c)
    \/ \E c \in Callers : OsGetenv(c)
    \/ \E c \in Callers : InitFinish(c)

Spec == Init /\ [][Next]_vars

\* ------------------------------------------------- Init given a client

\* What an application passes to the Init that takes a client: nil, a client
\* while the package's RetrieveFunc is nil, or a client with RetrieveFunc set.
Retrievers == {"nil", "uninitialized", "ready"}

\* The panic of the Go runtime for a call through a nil pointer.
NilDereference ==
    [kind |-> "panic", msg |-> "invalid memory address or nil pointer dereference"]

\* ParameterStoreClient.retrieve, with RetrieveFunc set or nil, where a
\* RetrieveFunc that is set returns value and err.
RetrieveNilFuncCalled(retrieveFuncSet, value, err) ==
    IF ~retrieveFuncSet
    THEN [value |-> "", err |-> NilDereference]
    ELSE [value |-> value, err |-> err]

Retrieve(retrieveFuncSet, value, err) ==
    IF ~retrieveFuncSet
    THEN [value |-> "",
          err |-> FmtErrorf("RetrieveFunc not initialized. Please call config.InitializeRetrieveFunc() after importing the client package")]
    ELSE [value |-> value, err |-> err]

\* The remote retrieve of the Init that takes a client: a nil client is not
\* called and counts as a miss.
RetrieveWithClient(r, value, err) ==
    IF r = "nil"
    THEN [value |-> "", err |-> NilErr, called |-> FALSE]
    ELSE LET got == Retrieve(r = "ready", value, err)
         IN  [value |-> got.value, err |-> got.err, called |-> TRUE]

\* The remote retrieve of an Init call that was given a client, then the
\* checks made on its result. A panic of the runtime ends the call.
ClientRetrieve(c) ==
    /\ pc[c] = "retrieve"
    /\ \E tValue \in RemoteValues, tErr \in TransportErrors :
         LET r  == RetrieveWithClient(retriever, tValue, tErr)
             to == IF r.err.kind = "panic" THEN "panicked"
                   ELSE AfterRetrieve(r.value, r.err)
         IN  /\ pc' = [pc EXCEPT ![c] = to]
             /\ frame' = [frame EXCEPT
                    ![c] = IF to = "panicked" THEN NoFrame
                           ELSE [@ EXCEPT
                                   !.retrievedValue =
                                       IF to = "finish" THEN r.value ELSE @,
                                   !.initErr =
                                       IF to = "finish" THEN r.err ELSE NilErr]]
             /\ obs' = [obs EXCEPT
                    ![c].remote = IF ~r.called THEN "none"
                                  ELSE RemoteOutcome(r.value, r.err, FALSE),
                    ![c].remoteValue = IF r.err = NilErr THEN r.value ELSE "",
                    ![c].panic = IF to = "panicked" THEN r.err.msg ELSE @]
             /\ hist' = IF to = "panicked"
                        THEN [hist EXCEPT ![frame[c].slot] = @ \cup {"fatal"}]
                        ELSE hist
    /\ UNCHANGED <<config, outside>>

\* The state after construction of an application that passes a client.
InitClient ==
    /\ config \in [Slots -> UNION {ConfigsOf(s, PresetValues) : s \in Slots}]
    /\ \A s \in Slots : config[s] \in ConfigsOf(s, PresetValues)
    /\ pc = [c \in Callers |-> "idle"]
    /\ frame = [c \in Callers |-> NoFrame]
    /\ obs = [c \in Callers |-> NoObs]
    /\ hist = [s \in Slots |-> {}]
    /\ built = NoBuilt
    /\ wire = [c \in Callers |-> NoWire]
    /\ NoCertCalls
    /\ endpoint = [host |-> "", port |-> 0, timeout |-> 0]
    /\ retriever \in Retrievers
    /\ GrpcIdle

NextClient ==
    \/ \E c \in Callers, s \in Slots : CallInit(c, s)
    \/ \E c \in Callers : SetValueIfEmptyEntry(c)
    \/ \E c \in Callers : ClientRetrieve(c)
    \/ \E c \in Callers : OsGetenv(c)
    \/ \E c \in Callers : InitFinish(c)

SpecClient == InitClient /\ [][NextClient]_vars

\* ------------------------------------------------------ concurrent callers

\* The state after construction with the goroutines G, none of which has
\* called Init yet.
InitConcurrent(G) ==
    /\ config \in [Slots -> UNION {ConfigsOf(s, PresetValues) : s \in Slots}]
    /\ \A s \in Slots : config[s] \in ConfigsOf(s, PresetValues)
    /\ pc = [c \in G |-> "idle"]
    /\ frame = [c \in G |-> NoFrame]
    /\ obs = [c \in G |-> NoObs]
    /\ hist = [s \in Slots |-> {}]
    /\ built = NoBuilt
    /\ wire = [c \in Callers |-> NoWire]
    /\ NoCertCalls
    /\ endpoint \in Endpoints
    /\ retriever = NoRetriever
    /\ GrpcIdle

\* One goroutine for each slot, named after the slot it resolves, all given
\* the same endpoint.
InitDistinct == InitConcurrent(Slots)

NextDistinct ==
    \/ \E s \in Slots : CallInit(s, s)
    \/ \E s \in Slots : SetValueIfEmptyEntry(s)
    \/ \E s \in Slots : SimpleRetrieveParameterWithTimeout(s)
    \/ \E s \in Slots : OsGetenv(s)
    \/ \E s \in Slots : InitFinish(s)

SpecDistinct == InitDistinct /\ [][NextDistinct]_vars

\* Two goroutines that call Init on the same slot.
Racers == {"first", "second"}
RacedSlot == "APIKey"

InitRace == InitConcurrent(Racers)

NextRace ==
    \/ \E c \in Racers : CallInit(c, RacedSlot)
    \/ \E c \in Racers : SetValueIfEmptyEntry(c)
    \/ \E c \in Racers : SimpleRetrieveParameterWithTimeout(c)
    \/ \E c \in Racers : OsGetenv(c)
    \/ \E c \in Racers : InitFinish(c)

SpecRace == InitRace /\ [][NextRace]_vars

\* ------------------------------------- the gRPC client functions, called

\* A call of GrpcSimpleRetrieve with any password and key.
CallGrpcSimpleRetrieve ==
    /\ \E password \in Passwords, key \in RetrieveKeys,
          fault \in FaultsOf(server.running) :
         LET r == GrpcSimpleRetrieve(server, fault, BufnetAddress, password, key)
         IN  rpc' = [fn |-> "retrieve", password |-> password, key |-> key,
                     value |-> "", fault |-> fault,
                     simulated |-> server.simulateError # NilErr,
                     before |-> server.store,
                     val |-> r.val, err |-> r.err, cause |-> r.cause]
    /\ UNCHANGED <<server, lastStored, initVars, built>>

\* A call of GrpcSimpleStore with any password, key and value.
CallGrpcSimpleStore ==
    /\ \E password \in Passwords, key \in StoreKeys, value \in StoreValues,
          fault \in FaultsOf(server.running) :
         LET r == GrpcSimpleStore(server, fault, BufnetAddress, password, key, value)
         IN  /\ rpc' = [fn |-> "store", password |-> password, key |-> key,
                         value |-> value, fault |-> fault,
                         simulated |-> server.simulateError # NilErr,
                         before |-> server.store,
                         val |-> "", err |-> r.err, cause |-> r.cause]
             /\ server' = [server EXCEPT !.store = r.store]
             /\ lastStored' = IF r.err = NilErr
                              THEN StorePut(lastStored, key, value)
                              ELSE IF r.store # server.store
                              THEN StoreDrop(lastStored, key)
                              ELSE lastStored
    /\ UNCHANGED <<initVars, built>>

\* The test sets or clears the error the server simulates.
SetSimulateError ==
    /\ server.running
    /\ \E e \in {NilErr, InternalErr} :
         /\ e # server.simulateError
         /\ server' = [server EXCEPT !.simulateError = e]
    /\ UNCHANGED <<rpc, lastStored, initVars, built>>

\* stopServer: the server is gone for the rest of the test.
StopServer ==
    /\ server.running
    /\ server' = [server EXCEPT !.running = FALSE]
    /\ UNCHANGED <<rpc, lastStored, initVars, built>>

\* A test of the gRPC client functions: a mock server, with or without a
\* value stored beforehand, and no Init call.
InitGrpc ==
    /\ \E store \in {<<>>, StorePut(<<>>, "mykey", "myvalue")} :
         server = [NewMockServer(CorrectPassword) EXCEPT !.store = store]
    /\ rpc = NoRpc
    /\ lastStored = <<>>
    /\ built = NoBuilt
    /\ wire = [c \in Callers |-> NoWire]
    /\ NoCertCalls
    /\ config = [s \in Slots |-> ParameterStoreConfig(s, "", FALSE, <<"", "", "">>)]
    /\ pc = [c \in Callers |-> "idle"]
    /\ frame = [c \in Callers |-> NoFrame]
    /\ obs = [c \in Callers |-> NoObs]
    /\ hist = [s \in Slots |-> {}]
    /\ endpoint = [host |-> "", port |-> 0, timeout |-> 0]
    /\ retriever = NoRetriever

NextGrpc ==
    \/ CallGrpcSimpleRetrieve
    \/ CallGrpcSimpleStore
    \/ SetSimulateError
    \/ StopServer

SpecGrpc == InitGrpc /\ [][NextGrpc]_vars

\* --------------------------------------------- the constructors, called

\* A call of NewParameterStoreClient with any arguments.
CallNewParameterStoreClient ==
    /\ \E host \in Hosts, port \in Ports, timeout \in Timeouts,
          clientCert \in CertificateSources, clientKey \in CertificateSources,
          caCert \in CertificateSources :
         LET r == NewParameterStoreClient(host, port, timeout,
                                          clientCert, clientKey, caCert)
         IN  built' = [fn |-> "NewParameterStoreClient",
                       args |-> [host |-> host, port |-> port, timeout |-> timeout,
                                 clientCert |-> clientCert, clientKey |-> clientKey,
                                 caCert |-> caCert],
                       client |-> r.client, err |-> r.err]
    /\ UNCHANGED <<initVars, grpcVars>>

\* A call of client.NewClient with any arguments and options.
CallNewClient ==
    /\ \E host \in Hosts, port \in Ports, opts \in OptionLists :
         LET r == NewClient(host, port, opts)
         IN  built' = [fn |-> "NewClient",
                       args |-> [host |-> host, port |-> port, opts |-> opts],
                       client |-> r.client, err |-> r.err]
    /\ UNCHANGED <<initVars, grpcVars>>

\* An application that only constructs endpoints: no slot is resolved.
InitNew ==
    /\ built = NoBuilt
    /\ wire = [c \in Callers |-> NoWire]
    /\ NoCertCalls
    /\ config = [s \in Slots |-> ParameterStoreConfig(s, "", FALSE, <<"", "", "">>)]
    /\ pc = [c \in Callers |-> "idle"]
    /\ frame = [c \in Callers |-> NoFrame]
    /\ obs = [c \in Callers |-> NoObs]
    /\ hist = [s \in Slots |-> {}]
    /\ endpoint = [host |-> "", port |-> 0, timeout |-> 0]
    /\ retriever = NoRetriever
    /\ GrpcIdle

NextNew ==
    \/ CallNewParameterStoreClient
    \/ CallNewClient

SpecNew == InitNew /\ [][NextNew]_vars

\* --------------------------------------- an Init call over the connection

\* Default timeout for gRPC operations if no context deadline is set, in
\* seconds.
defaultGrpcTimeout == 5

\* context.WithTimeout(context.Background(), parameterStoreTimeout): the
\* deadline of the context simpleRetrieveParameterWithTimeout creates.
ContextWithTimeout(parameterStoreTimeout) == parameterStoreTimeout

\* The deadline a Grpc* function runs its RPC under: that of the caller's
\* context, or the default one.
RpcDeadlineUnbounded(ctxDeadline) == ctxDeadline

RpcDeadline(ctxDeadline) ==
    IF ctxDeadline = NoDeadline THEN defaultGrpcTimeout ELSE ctxDeadline

\* The error of a call answered with a nil response.
NilResponseErr(key) ==
    FmtErrorf("received nil response from gRPC server for key '" \o key \o "'")

\* defer conn.Close(): the connection after the function has returned.
ConnCloseSkipped(conn) == conn

ConnClose(conn) == "closed"

\* The variables no step of a gRPC client function writes.
aside == <<config, frame, obs, hist, built, endpoint, retriever, grpcVars,
          files, certCall>>

\* A call is under way: its context is live.
InFlight(w) == w.pc \in {"dial", "rpc", "close", "return"}

\* The server the slots are kept in: it knows the key of the first slot or
\* no key, and simulates an error or none.
WireServers ==
    { [NewMockServer(SecretOf("APIKey")) EXCEPT !.store = store,
                                                !.simulateError = e] :
        store \in {<<>>, StorePut(<<>>, KeyOf("APIKey"), "value-from-param-store")},
        e \in {NilErr, InternalErr} }

\* simpleRetrieveParameterWithTimeout up to its call of the transport, and
\* the transport up to dial: the context and its deadline.
WireBegin(c) ==
    /\ pc[c] = "retrieve"
    /\ ~InFlight(wire[c])
    /\ LET cfg == config[frame[c].slot]
           d   == ContextWithTimeout(endpoint.timeout)
       IN  wire' = [wire EXCEPT ![c] =
               [NoWire EXCEPT
                   !.pc = "dial", !.ctxDeadline = d, !.deadline = RpcDeadline(d),
                   !.mtls = UseMTLS(cfg),
                   !.serverAddress = ServerAddress(frame[c].paramStoreHost,
                                                   frame[c].paramStorePort),
                   !.password = cfg.ParameterStoreSecret,
                   !.key = cfg.ParameterStoreKey]]
    /\ UNCHANGED <<pc, aside>>

\* A test calls GrpcSimpleRetrieve itself, with context.Background().
CallGrpcDirect(c) ==
    /\ pc[c] \in {"idle", "returned", "panicked"}
    /\ pc' = [pc EXCEPT ![c] = "direct"]
    /\ \E password \in {SecretOf("APIKey"), "wrongpass"} :
         wire' = [wire EXCEPT ![c] =
             [NoWire EXCEPT
                 !.pc = "dial", !.ctxDeadline = NoDeadline,
                 !.deadline = RpcDeadline(NoDeadline),
                 !.serverAddress = BufnetAddress,
                 !.password = password, !.key = KeyOf("APIKey")]]
    /\ UNCHANGED aside

\* The deadline of the context of a call under way passes.
DeadlinePasses(c) ==
    /\ InFlight(wire[c])
    /\ wire[c].deadline # NoDeadline
    /\ ~wire[c].expired
    /\ wire' = [wire EXCEPT ![c].expired = TRUE]
    /\ UNCHANGED <<pc, aside>>

\* A test has replaced grpcRetrieveFunc by a mock, which returns the value
\* and the error the test told it to.
MockRetrieveFunc(c) ==
    /\ pc[c] = "retrieve"
    /\ wire[c].pc = "dial"
    /\ ~wire[c].mtls
    /\ \E tValue \in RemoteValues, tErr \in TransportErrors :
         wire' = [wire EXCEPT ![c].pc = "return", ![c].val = tValue,
                              ![c].err = tErr]
    /\ UNCHANGED <<pc, aside>>

\* The transport up to the connection: the mTLS one loads its certificate
\* files, then dial refuses an expired context or sets the connection up.
WireDial(c) ==
    /\ wire[c].pc = "dial"
    /\ \E loaded \in (IF wire[c].mtls THEN BOOLEAN ELSE {TRUE}),
          fault \in (IF wire[c].expired THEN {"expired"} ELSE {"none", "dial"}) :
         LET d == Dial(fault, wire[c].serverAddress) IN
         wire' = [wire EXCEPT ![c] =
             IF ~loaded THEN [@ EXCEPT !.pc = "return", !.err = CertLoadErr]
             ELSE IF d # NilErr THEN [@ EXCEPT !.pc = "return", !.err = d]
             ELSE [@ EXCEPT !.pc = "rpc", !.conn = "open"]]
    /\ UNCHANGED <<pc, aside>>

\* client.Retrieve(ctx, retrieveReq) answered before the deadline: by the
\* server's handler, or with a nil response.
WireRpcRespond(c) ==
    /\ wire[c].pc = "rpc"
    /\ ~wire[c].expired
    /\ \E answered \in BOOLEAN :
         LET w    == wire[c]
             resp == MockRetrieve(server, RetrieveRequest(w.key, w.password))
             ret  == RetrieveReturn(resp.value, resp.err)
         IN  wire' = [wire EXCEPT ![c] =
                 IF answered
                 THEN [@ EXCEPT !.pc = "close", !.val = ret.val, !.err = ret.err]
                 ELSE [@ EXCEPT !.pc = "close", !.err = NilResponseErr(w.key)]]
    /\ UNCHANGED <<pc, aside>>

\* client.Retrieve(ctx, retrieveReq) aborted: the deadline has passed.
WireRpcAbort(c) ==
    /\ wire[c].pc = "rpc"
    /\ wire[c].expired
    /\ LET ret == RetrieveReturn("", DeadlineStatusErr) IN
       wire' = [wire EXCEPT ![c].pc = "close", ![c].val = ret.val,
                            ![c].err = ret.err]
    /\ UNCHANGED <<pc, aside>>

\* The deferred conn.Close() of a function that had a connection.
WireClose(c) ==
    /\ wire[c].pc = "close"
    /\ wire' = [wire EXCEPT ![c].pc = "return", ![c].conn = ConnClose(@)]
    /\ UNCHANGED <<pc, aside>>

\* The tail of simpleRetrieveParameterWithTimeout on what the transport
\* returned, then the checks setValueIfEmpty makes on the result.
WireClassify(c) ==
    /\ pc[c] = "retrieve"
    /\ wire[c].pc = "return"
    /\ LET w   == wire[c]
           cfg == config[frame[c].slot]
           r   == ClassifyTimeout(w.val, w.err, w.expired)
           to  == AfterRetrieve(r.value, r.err)
       IN  /\ pc' = [pc EXCEPT ![c] = to]
           /\ frame' = [frame EXCEPT
                  ![c].retrievedValue = IF to = "finish" THEN r.value ELSE @,
                  ![c].initErr = IF to = "finish" THEN r.err ELSE NilErr]
           /\ obs' = [obs EXCEPT
                  ![c].mtls = IF w.mtls THEN @ + 1 ELSE @,
                  ![c].plain = IF w.mtls THEN @ ELSE @ + 1,
                  ![c].call = TransportArgs(w.serverAddress, w.password, w.key),
                  ![c].remote = RemoteOutcome(w.val, w.err, w.expired),
                  ![c].log = RetrieveLog(r.err),
                  ![c].remoteValue = IF w.err = NilErr THEN w.val ELSE ""]
           /\ wire' = [wire EXCEPT ![c].pc = "done", ![c].outVal = r.value,
                                   ![c].outErr = r.err]
    /\ UNCHANGED <<config, hist, built, endpoint, retriever, grpcVars, files,
                   certCall>>

\* The test has the result of its call.
WireReturnDirect(c) ==
    /\ pc[c] = "direct"
    /\ wire[c].pc = "return"
    /\ pc' = [pc EXCEPT ![c] = "idle"]
    /\ wire' = [wire EXCEPT ![c].pc = "done", ![c].outVal = wire[c].val,
                            ![c].outErr = wire[c].err]
    /\ UNCHANGED aside

\* The goroutine that initializes the slots and calls the server.
WireCallers == {"app"}

\* Slots with no value yet, the first with any certificate paths, and the
\* server.
InitWire ==
    /\ \E certs \in CertTriples :
         config = [s \in Slots |->
             ParameterStoreConfig(s, "", FALSE,
                 IF s = "APIKey" THEN certs ELSE <<"", "", "">>)]
    /\ pc = [c \in WireCallers |-> "idle"]
    /\ frame = [c \in WireCallers |-> NoFrame]
    /\ obs = [c \in WireCallers |-> NoObs]
    /\ hist = [s \in Slots |-> {}]
    /\ built = NoBuilt
    /\ wire = [c \in WireCallers |-> NoWire]
    /\ NoCertCalls
    /\ endpoint = [host |-> "localhost", port |-> 50051, timeout |-> 3]
    /\ retriever = NoRetriever
    /\ server \in WireServers
    /\ rpc = NoRpc
    /\ lastStored = <<>>

\* The steps of one caller.
WireStep(c) ==
    \/ \E s \in Slots : CallInit(c, s)
    \/ SetValueIfEmptyEntry(c)
    \/ WireBegin(c)
    \/ CallGrpcDirect(c)
    \/ DeadlinePasses(c)
    \/ MockRetrieveFunc(c)
    \/ WireDial(c)
    \/ WireRpcRespond(c)
    \/ WireRpcAbort(c)
    \/ WireClose(c)
    \/ WireClassify(c)
    \/ WireReturnDirect(c)
    \/ OsGetenv(c)
    \/ InitFinish(c)

NextWire == \E c \in WireCallers : WireStep(c)

SpecWire == InitWire /\ [][NextWire]_vars

\* The steps the program and its runtime take by themselves: every step but
\* the start of a call, the answer of the server, which may never come, and
\* the return of a mock. The timer of a context is one of them.
WireProgress(c) ==
    \/ SetValueIfEmptyEntry(c)
    \/ WireBegin(c)
    \/ DeadlinePasses(c)
    \/ WireDial(c)
    \/ WireRpcAbort(c)
    \/ WireClose(c)
    \/ WireClassify(c)
    \/ WireReturnDirect(c)
    \/ OsGetenv(c)
    \/ InitFinish(c)

\* A goroutine that can take a step takes one, and time passes.
SpecWireFair == SpecWire /\ \A c \in WireCallers : WF_vars(WireProgress(c))

\* --------------------------------------- certificate material, resolved

\* The sources a test gives for the material at path: the path, the bytes,
\* both or neither.
MaterialSources(path) ==
    { [FilePath |-> f, Bytes |-> b] : f \in {"", path}, b \in {<<>>, ValidPEM} }

\* The sources of a client configuration in the tests of the mTLS functions:
\* the path, the bytes or neither.
ConfigSources(path) == { cs \in MaterialSources(path) : cs.FilePath = "" \/ cs.Bytes = <<>> }

\* The file systems: at each path a file with some content, or none.
FileSystems == [CertPaths -> {NoFile} \cup {FileOf(d) : d \in FileContents}]

\* The variables no call that resolves certificate material writes.
certAside == <<config, pc, frame, obs, hist, built, endpoint, retriever,
              grpcVars, wire, files>>

\* A call of GetData on any source.
CallGetData ==
    /\ \E path \in CertPaths : \E cs \in MaterialSources(path) :
         LET g == GetData(cs, files) IN
         certCall' = [fn |-> "GetData", cs |-> cs, data |-> g.data,
                      err |-> g.err, read |-> g.read]
    /\ UNCHANGED certAside

\* A call of GrpcSimpleRetrieveWithMTLS with any client configuration.
CallGrpcSimpleRetrieveWithMTLS ==
    /\ \E cc \in ConfigSources("client.crt"),
          ck \in ConfigSources("client.key"),
          ca \in ConfigSources("ca.crt"),
          fault \in {"none", "dial", "expired"} :
         LET clientConfig == [ClientCert |-> cc, ClientKey |-> ck, CACert |-> ca]
             r == GrpcSimpleRetrieveWithMTLS(server, files, fault, "localhost:50051",
                                             CorrectPassword, "mykey", clientConfig)
         IN  certCall' = [fn |-> "GrpcSimpleRetrieveWithMTLS",
                          clientConfig |-> clientConfig, fault |-> fault,
                          val |-> r.val, err |-> r.err, ops |-> r.ops]
    /\ UNCHANGED certAside

\* The tests of the mTLS functions: some files, a server that holds a value,
\* and no call made yet.
InitCert ==
    /\ files \in FileSystems
    /\ certCall = NoCertCall
    /\ server = [NewMockServer(CorrectPassword) EXCEPT
                    !.store = StorePut(<<>>, "mykey", "myvalue")]
    /\ rpc = NoRpc
    /\ lastStored = <<>>
    /\ built = NoBuilt
    /\ wire = [c \in Callers |-> NoWire]
    /\ config = [s \in Slots |-> ParameterStoreConfig(s, "", FALSE, <<"", "", "">>)]
    /\ pc = [c \in Callers |-> "idle"]
    /\ frame = [c \in Callers |-> NoFrame]
    /\ obs = [c \in Callers |-> NoObs]
    /\ hist = [s \in Slots |-> {}]
    /\ endpoint = [host |-> "", port |-> 0, timeout |-> 0]
    /\ retriever = NoRetriever

NextCert ==
    \/ CallGetData
    \/ CallGrpcSimpleRetrieveWithMTLS

SpecCert == InitCert /\ [][NextCert]_vars

\* ------------------------------------------------------------ properties

\* The ParameterStoreValue field of slot s.
Value(s) == config[s].ParameterStoreValue

\* The same field after a step.
NextValue(s) == config'[s].ParameterStoreValue

\* Caller c has made an Init call, which is over.
Over(c) == pc[c] \in {"returned", "panicked"}

\* The calls of a transport and of osGetenvFunc that c's Init call has made.
RemoteCalls(c) == obs[c].plain + obs[c].mtls
EnvCalls(c) == obs[c].getenv

\* The call of c found no value in the parameter store.
RemoteMiss(c) == obs[c].remote \in {"empty", "timeout", "error"}

\* C1: an Init call on a slot whose ParameterStoreValue is not empty returns
\* at once: it leaves the value as it was and calls neither transport (plain
\* or mTLS) nor the environment lookup.
C1_PresetValueIsKept ==
    \A c \in Callers :
        (obs[c].slot # "" /\ obs[c].pre # "")
            => /\ pc[c] = "returned"
               /\ obs[c].post = obs[c].pre
               /\ ~obs[c].wrote
               /\ RemoteCalls(c) = 0
               /\ EnvCalls(c) = 0

C1_Witness ==
    \E c \in Callers :
        /\ pc[c] = "returned"
        /\ obs[c].slot # ""
        /\ obs[c].pre = "pre-filled-value"
        /\ Value(obs[c].slot) = "pre-filled-value"
        /\ ~config[obs[c].slot].ParameterStoreUseEmptyValue

\* C2: an Init call on a slot whose ParameterStoreUseEmptyValue is true is a
\* no-op whatever the value is: it returns without a panic, writes nothing,
\* calls neither transport nor the environment lookup, and an empty value is
\* still empty.
C2_UseEmptyValueIsNoOp ==
    \A c \in Callers :
        (obs[c].slot # "" /\ config[obs[c].slot].ParameterStoreUseEmptyValue)
            => /\ pc[c] = "returned"
               /\ obs[c].panic = ""
               /\ obs[c].post = obs[c].pre
               /\ ~obs[c].wrote
               /\ RemoteCalls(c) = 0
               /\ EnvCalls(c) = 0
               /\ (obs[c].pre = "" => Value(obs[c].slot) = "")

C2_Witness ==
    \E c \in Callers :
        /\ pc[c] = "returned"
        /\ obs[c].slot # ""
        /\ config[obs[c].slot].ParameterStoreUseEmptyValue
        /\ obs[c].pre = ""
        /\ Value(obs[c].slot) = ""

\* C3: when the transport returns a non-empty value v and no error, the
\* environment lookup is never called in that Init call, and the call ends
\* by storing exactly v in the slot.
C3_RemoteValueWins ==
    \A c \in Callers :
        obs[c].remote = "value"
            => /\ obs[c].pre = ""
               /\ ~config[obs[c].slot].ParameterStoreUseEmptyValue
               /\ EnvCalls(c) = 0
               /\ pc[c] \in {"finish", "returned"}
               /\ (pc[c] = "returned"
                     => /\ obs[c].wrote
                        /\ obs[c].post = obs[c].remoteValue
                        /\ obs[c].post # "")

C3_Witness ==
    \E c \in Callers :
        /\ pc[c] = "returned"
        /\ obs[c].remote = "value"
        /\ obs[c].pre = ""
        /\ Value(obs[c].slot) = "value-from-param-store"

\* C4: when the transport returns an empty value or an error (after the
\* deadline or not), the Init call calls the environment lookup exactly once,
\* with the EnvironmentVariableKey of its slot.
C4_EnvLookupOnceOnMiss ==
    \A c \in Callers :
        (Over(c) /\ RemoteMiss(c))
            => /\ EnvCalls(c) = 1
               /\ obs[c].getenvArg = config[obs[c].slot].EnvironmentVariableKey
               /\ obs[c].getenvArg = EnvKeyOf(obs[c].slot)

C4_Witness ==
    \E c \in Callers :
        /\ Over(c)
        /\ obs[c].remote = "error"
        /\ EnvCalls(c) = 1
        /\ obs[c].getenvArg = "MY_APP_API_KEY"

\* C5: when the transport gives no value and the environment lookup returns
\* the empty string, Init panics with the error whose message is "Failed to
\* retrieve value for parameter store key '<key>' (checked env var
\* '<envVar>'). Neither parameter store nor environment variable provided a
\* value.", with the slot's ParameterStoreKey and EnvironmentVariableKey.
C5_PanicMessage ==
    \A c \in Callers :
        (Over(c) /\ RemoteMiss(c) /\ obs[c].envValue = "")
            => /\ pc[c] = "panicked"
               /\ ~obs[c].wrote
               /\ obs[c].panic =
                    "Failed to retrieve value for parameter store key '"
                    \o config[obs[c].slot].ParameterStoreKey
                    \o "' (checked env var '"
                    \o config[obs[c].slot].EnvironmentVariableKey
                    \o "'). Neither parameter store nor environment variable provided a value."
               /\ (obs[c].slot = "APIKey" => obs[c].panic =
                    "Failed to retrieve value for parameter store key 'my-app/api-key' (checked env var 'MY_APP_API_KEY'). Neither parameter store nor environment variable provided a value.")

C5_Witness ==
    \E c \in Callers :
        /\ pc[c] = "panicked"
        /\ obs[c].slot = "APIKey"
        /\ obs[c].remote = "error"
        /\ EnvCalls(c) = 1
        /\ obs[c].envValue = ""
        /\ obs[c].panic # ""

\* C6: when the transport fails (after the deadline or not) or returns an
\* empty value without error, and the environment lookup returns a non-empty
\* value e, Init returns without a panic and stores e; an empty value that
\* the transport returned without error is never what Init stores.
C6_EnvFallback ==
    \A c \in Callers :
        /\ (Over(c) /\ RemoteMiss(c) /\ obs[c].envValue # "")
              => /\ pc[c] = "returned"
                 /\ obs[c].panic = ""
                 /\ obs[c].wrote
                 /\ obs[c].post = obs[c].envValue
        /\ (obs[c].remote = "empty" /\ pc[c] \in {"finish", "returned"})
              => /\ EnvCalls(c) = 1
                 /\ (pc[c] = "returned" => obs[c].post = obs[c].envValue /\ obs[c].post # "")

C6_Witness ==
    \E c \in Callers :
        /\ pc[c] = "returned"
        /\ obs[c].remote = "empty"
        /\ obs[c].envValue = "value-from-env"
        /\ Value(obs[c].slot) = "value-from-env"

\* C7: after an Init call has returned without a panic, the value of its slot
\* is the value the slot had before the call, or a non-empty value that the
\* transport or the environment lookup returned, or the empty string; it is
\* the empty string only when ParameterStoreUseEmptyValue is true.
C7_ValueAfterInit ==
    \A c \in Callers :
        pc[c] = "returned"
            => LET s == obs[c].slot IN
               /\ \/ Value(s) = obs[c].pre
                  \/ Value(s) \in RemoteValues \ {""}
                  \/ Value(s) \in EnvValues \ {""}
               /\ (Value(s) = "" => config[s].ParameterStoreUseEmptyValue)
               /\ (obs[c].post = "" => config[s].ParameterStoreUseEmptyValue)
               /\ (obs[c].wrote /\ obs[c].remote = "value"
                     => obs[c].post = obs[c].remoteValue)
               /\ (obs[c].wrote /\ RemoteMiss(c)
                     => obs[c].post = obs[c].envValue)
               /\ (~obs[c].wrote => obs[c].post = obs[c].pre)

C7_Witness ==
    \E c \in Callers :
        /\ pc[c] = "returned"
        /\ obs[c].wrote
        /\ obs[c].remote = "timeout"
        /\ Value(obs[c].slot) = "value-from-env"
        /\ \E s \in Slots :
             Value(s) = "" /\ config[s].ParameterStoreUseEmptyValue /\ "ok" \in hist[s]

\* C8: after an Init call on a slot has returned without a panic, a later
\* Init call on that slot is a no-op: it returns, writes nothing and calls
\* neither transport nor the environment lookup, whatever they would return.
C8_SecondInitIsNoOp ==
    \A c \in Callers :
        obs[c].afterOk
            => /\ pc[c] = "returned"
               /\ ~obs[c].wrote
               /\ obs[c].post = obs[c].pre
               /\ RemoteCalls(c) = 0
               /\ EnvCalls(c) = 0

C8_Witness ==
    \E c \in Callers :
        /\ obs[c].afterOk
        /\ pc[c] = "returned"
        /\ obs[c].pre = "value-from-param-store"
        /\ Value(obs[c].slot) = "value-from-param-store"
        /\ ~config[obs[c].slot].ParameterStoreUseEmptyValue

\* C9: no retries: one Init call calls a transport at most once and the
\* environment lookup at most once, however it ends.
C9_NoRetries ==
    \A c \in Callers :
        /\ RemoteCalls(c) <= 1
        /\ EnvCalls(c) <= 1
        /\ (EnvCalls(c) = 1 => RemoteCalls(c) = 1)

C9_Witness ==
    \E c \in Callers :
        /\ pc[c] = "panicked"
        /\ obs[c].remote = "timeout"
        /\ RemoteCalls(c) = 1
        /\ EnvCalls(c) = 1

\* C10 as claimed: once an Init call on a slot has panicked, the slot never
\* becomes resolved (its value stays empty).
C10_FatalIsTerminal ==
    [][ \A s \in Slots :
          ("fatal" \in hist[s] /\ Value(s) = "") => (NextValue(s) = "") ]_vars

\* C10 as amended: an Init call that succeeds leaves its slot with a
\* non-empty value, and a non-empty value never becomes empty again; an Init
\* call that panics leaves every slot as it was; and a slot's value becomes
\* non-empty only by an Init call on that slot that succeeds, also on a slot
\* on which an earlier call has panicked.
C10_LifeCycle ==
    [][ /\ \A c \in Callers :
             (pc[c] = "finish" /\ pc'[c] = "returned")
                 => /\ NextValue(frame[c].slot) # ""
                    /\ "ok" \in hist'[frame[c].slot]
        /\ \A c \in Callers :
             (pc[c] = "finish" /\ pc'[c] = "panicked")
                 => /\ config' = config
                    /\ hist'[frame[c].slot] = hist[frame[c].slot] \cup {"fatal"}
        /\ \A s \in Slots :
             /\ (Value(s) # "" => NextValue(s) # "")
             /\ (Value(s) = "" /\ NextValue(s) # "")
                   => \E c \in Callers :
                        /\ pc[c] = "finish"
                        /\ pc'[c] = "returned"
                        /\ frame[c].slot = s ]_vars

C10_Witness ==
    \E s \in Slots :
        /\ "fatal" \in hist[s]
        /\ Value(s) # ""
        /\ \E c \in Callers : pc[c] = "returned" /\ obs[c].slot = s /\ obs[c].wrote

\* ------------------------------------------- properties of the constructors

\* The three sources a call of NewParameterStoreClient was given that are
\* provided.
ProvidedCount(args) ==
    Cardinality({ n \in {"clientCert", "clientKey", "caCert"} : IsProvided(args[n]) })

\* C11: a call of NewParameterStoreClient given exactly one or exactly two of
\* clientCert, clientKey and caCert returns an error and no client, so the
\* client of every call that returns one has all three sources provided or
\* none of them.
C11_PartialMTLSRejected ==
    built.fn = "NewParameterStoreClient" =>
      /\ ProvidedCount(built.args) \in {1, 2} =>
           built.client = Nil /\ built.err # NilErr
      /\ built.client # Nil =>
           LET cl == built.client[1]
               n  == Cardinality({ cs \in {<<1, cl.ClientCert>>, <<2, cl.ClientKey>>,
                                           <<3, cl.CACert>>} : IsProvided(cs[2]) })
           IN  n \in {0, 3}

\* A call with a valid host and port and only the CA certificate was refused,
\* for its mTLS configuration.
C11_Witness ==
    /\ built.fn = "NewParameterStoreClient"
    /\ built.args.host # "" /\ built.args.port > 0
    /\ ~IsProvided(built.args.clientCert) /\ ~IsProvided(built.args.clientKey)
    /\ IsProvided(built.args.caCert)
    /\ built.client = Nil
    /\ built.err = FmtErrorf("for mTLS, client certificate, client key, and CA certificate must all be provided")

\* The timeout of the last WithTimeout option of opts given a positive
\* timeout, 30 seconds when there is none.
RequestedTimeout(opts) ==
    LET pos == { i \in DOMAIN opts : opts[i].opt = "WithTimeout" /\ opts[i].timeout > 0 }
    IN  IF pos = {} THEN 30
        ELSE opts[CHOOSE i \in pos : \A j \in pos : j <= i].timeout

\* C12: the client NewParameterStoreClient returns for a timeout <= 0 has a
\* Timeout of 30 seconds and for a timeout > 0 has that timeout; the client
\* NewClient returns has the timeout of its last WithTimeout option with a
\* positive timeout, 30 seconds when no option has one.
C12_EffectiveTimeout ==
    /\ built.fn = "NewParameterStoreClient" /\ built.client # Nil =>
         built.client[1].Timeout =
             IF built.args.timeout <= 0 THEN 30 ELSE built.args.timeout
    /\ built.fn = "NewClient" /\ built.client # Nil =>
         built.client[1].Timeout = RequestedTimeout(built.args.opts)

\* NewParameterStoreClient, given a negative timeout, returned a client with
\* the default.
C12_Witness ==
    /\ built.fn = "NewParameterStoreClient"
    /\ built.args.timeout < 0
    /\ built.client # Nil
    /\ built.client[1].Timeout = 30

\* C13: a call of NewParameterStoreClient or of NewClient with the empty
\* host or with a port <= 0 returns an error and no client, so every client
\* returned has a host that is not empty and a port > 0.
C13_HostAndPortValidated ==
    built.fn # "none" =>
      /\ built.args.host = "" \/ built.args.port <= 0 =>
           built.client = Nil /\ built.err # NilErr
      /\ built.client # Nil =>
           built.client[1].Host # "" /\ built.client[1].Port > 0

\* NewParameterStoreClient refused the port 0 of a call with a host.
C13_Witness ==
    /\ built.fn = "NewParameterStoreClient"
    /\ built.args.host # "" /\ built.args.port = 0
    /\ built.client = Nil
    /\ built.err = FmtErrorf("port must be a positive integer")

\* ------------------------------------- properties of the remote retrieve

\* C14: an Init call that performs a remote retrieve calls exactly one
\* transport: the mTLS one when the slot has its three certificate files
\* set, the plain one otherwise. The call is given the address "host:port"
\* of the endpoint, the slot's ParameterStoreKey as key and its
\* ParameterStoreSecret as secret. A call that performs no remote retrieve
\* calls no transport.
C14_OneTransportVariant ==
    \A c \in Callers :
      LET o   == obs[c]
          cfg == config[o.slot]
      IN  /\ o.remote = "none" => o.plain = 0 /\ o.mtls = 0
          /\ o.remote # "none" =>
               /\ IF cfg.ClientCertFile # "" /\ cfg.ClientKeyFile # ""
                       /\ cfg.CACertFile # ""
                  THEN o.mtls = 1 /\ o.plain = 0
                  ELSE o.mtls = 0 /\ o.plain = 1
               /\ o.call.serverAddress =
                      endpoint.host \o ":" \o ToString(endpoint.port)
               /\ o.call.key = KeyOf(o.slot)
               /\ o.call.secret = SecretOf(o.slot)

\* An Init call on the API key, which has only a client certificate, called
\* the plain transport at localhost:1234.
C14_Witness ==
    \E c \in Callers :
      /\ obs[c].slot = "APIKey"
      /\ config["APIKey"].ClientCertFile # "" /\ config["APIKey"].CACertFile = ""
      /\ obs[c].plain = 1 /\ obs[c].mtls = 0
      /\ obs[c].call = [serverAddress |-> "localhost:1234",
                        secret |-> "secret-password", key |-> "my-app/api-key"]

\* The messages of the errors the remote retrieve can return.
RemoteErrorMessages ==
    { e.msg : e \in TransportErrorsOf(TRUE) \ {NilErr} }
      \cup { TimedOutErrorf(e).msg : e \in TransportErrorsOf(TRUE) \ {NilErr} }

\* C15: no error of the remote retrieve reaches the caller of Init. The
\* error an Init call carries, and the one it panics with, is never an error
\* of the remote retrieve; a call whose remote retrieve failed goes on to
\* the environment variable; a call panics only after an environment lookup
\* that returned the empty string, and a call whose environment lookup
\* returned a value returns and stores a value.
C15_RemoteErrorsRecovered ==
    \A c \in Callers :
      /\ frame[c].initErr.msg \notin RemoteErrorMessages
      /\ obs[c].panic \notin RemoteErrorMessages
      /\ pc[c] \in {"finish", "returned", "panicked"}
           /\ obs[c].remote \in {"timeout", "error"} => EnvCalls(c) = 1
      /\ pc[c] = "panicked" => EnvCalls(c) = 1 /\ obs[c].envValue = ""
      /\ Over(c) /\ obs[c].envValue # "" => pc[c] = "returned" /\ obs[c].wrote

\* An Init call whose remote retrieve returned an error has returned, with
\* the value of the environment variable stored.
C15_Witness ==
    \E c \in Callers :
      /\ pc[c] = "returned"
      /\ obs[c].remote = "error"
      /\ obs[c].envValue = "value-from-env"
      /\ obs[c].post = "value-from-env"

\* ------------------------------------------- properties of concurrent calls

\* What an Init call that runs alone does to a slot configured as cfg, given
\* the outcome of its remote retrieve and the value of the environment
\* variable: the value the slot ends with, and whether the call is fatal.
SequentialResult(cfg, pre, remote, remoteValue, envValue) ==
    IF pre # "" \/ cfg.ParameterStoreUseEmptyValue
    THEN [value |-> pre, fatal |-> FALSE]
    ELSE IF remote = "value" THEN [value |-> remoteValue, fatal |-> FALSE]
    ELSE IF envValue # "" THEN [value |-> envValue, fatal |-> FALSE]
    ELSE [value |-> pre, fatal |-> TRUE]

\* C16: with one goroutine for each slot and one endpoint given to them all,
\* under every interleaving of their Init calls a call that is over has left
\* its slot with the value, or ended with the fatal failure, that the same
\* call has when it runs alone; no step changes the endpoint, the
\* certificate files, key, secret or variable name of a slot, or the value
\* of a slot other than the one of the goroutine that takes the step.
C16_DistinctSlotsIndependent ==
    [][ /\ endpoint' = endpoint
        /\ \A s \in Slots :
             /\ [config'[s] EXCEPT !.ParameterStoreValue = ""]
                  = [config[s] EXCEPT !.ParameterStoreValue = ""]
             /\ NextValue(s) # Value(s) => pc[s] = "finish" /\ pc'[s] = "returned"
             /\ pc'[s] \in {"returned", "panicked"} =>
                  LET o == obs'[s]
                      r == SequentialResult(config[s], o.pre, o.remote,
                                            o.remoteValue, o.envValue)
                  IN  /\ NextValue(s) = r.value
                      /\ o.post = r.value
                      /\ r.fatal <=> pc'[s] = "panicked"
      ]_vars

\* Both goroutines are inside their Init calls, past the remote retrieve,
\* and the first has one value to store while the second has another.
C16_Witness ==
    /\ pc["APIKey"] = "finish" /\ pc["DBPassword"] = "finish"
    /\ obs["APIKey"].remote = "value" /\ obs["DBPassword"].remote = "error"
    /\ frame["APIKey"].retrievedValue = "value-from-param-store"
    /\ frame["DBPassword"].retrievedValue = "value-from-env"

\* C17: two Init calls on one slot are not kept apart. All that restrains a
\* call is what it read itself: a call invokes the remote retrieve, at most
\* once, or writes the value only if the slot was empty and not marked as
\* using the empty value when the call began. So two calls that both began
\* on the empty slot can both invoke the remote retrieve and both write, as
\* the witness shows.
C17_ConcurrentInitUnguarded ==
    \A c \in Racers :
      /\ RemoteCalls(c) <= 1
      /\ RemoteCalls(c) = 1 \/ obs[c].wrote =>
           /\ obs[c].pre = ""
           /\ ~config[RacedSlot].ParameterStoreUseEmptyValue

\* Both calls began before any call on the slot had completed, both invoked
\* the remote retrieve and both wrote: the first the value of the parameter
\* store, the second, over it, the value of the environment variable.
C17_Witness ==
    /\ \A c \in Racers :
         /\ pc[c] = "returned" /\ obs[c].slot = RacedSlot
         /\ ~obs[c].afterOk /\ obs[c].pre = ""
         /\ RemoteCalls(c) = 1 /\ obs[c].wrote
    /\ obs["first"].post = "value-from-param-store"
    /\ obs["second"].post = "value-from-env"
    /\ "ok" \in hist[RacedSlot]
    /\ Value(RacedSlot) = "value-from-env"

\* ------------------------------------ properties of Init given a client

C19_StoreRetrieveRoundTrip ==
    (/\ rpc.fn = "retrieve"
     /\ rpc.password = CorrectPassword
     /\ rpc.key \in DOMAIN lastStored
     /\ rpc.fault = "none" /\ ~rpc.simulated)
        => rpc.val = lastStored[rpc.key] /\ rpc.err = NilErr

\* Two stores to mykey have succeeded, the last one of storevalue over the
\* value the server began with, and a retrieve has returned storevalue.
C19_Witness ==
    /\ rpc.fn = "retrieve" /\ rpc.key = "mykey"
    /\ "mykey" \in DOMAIN lastStored /\ lastStored["mykey"] = "storevalue"
    /\ rpc.before = StorePut(<<>>, "mykey", "storevalue")
    /\ rpc.val = "storevalue" /\ rpc.err = NilErr

\* The prefixes the client functions put before the error they wrap.
WrapPrefixes ==
    { "gRPC retrieve call failed: ", "gRPC store call failed: ",
      "gRPC dial context for bufnet already expired/canceled: ",
      "failed to connect to gRPC server at bufnet: " }

\* The failure a call must meet: at the server, in this order, the
\* simulated error, the wrong password, the key that is not stored.
ExpectedFailure ==
    IF rpc.fault # "none" THEN "fault"
    ELSE IF rpc.simulated THEN "rpc error: code = Internal desc = internal server failure"
    ELSE IF rpc.password # "goodpass"
    THEN "rpc error: code = Unauthenticated desc = invalid password"
    ELSE IF rpc.fn = "retrieve" /\ rpc.key \notin DOMAIN rpc.before
    THEN "rpc error: code = NotFound desc = key not found: " \o rpc.key
    ELSE ""

\* C20: a retrieve or store that the server answers with an error status
\* (simulated internal error, wrong password, key not found), or whose
\* connection cannot be made or used, returns an error that is not nil and
\* wraps the failure, and a retrieve returns the empty string with it; a
\* store that fails, unless its deadline cut it off after the server had
\* run it, so a store with the wrong password, leaves the store of the
\* server as it was.
C20_FailuresReported ==
    rpc.fn # "none" =>
      /\ ExpectedFailure # "" =>
           /\ rpc.err # NilErr
           /\ rpc.cause # NilErr
           /\ ExpectedFailure # "fault" => rpc.cause.msg = ExpectedFailure
           /\ \E p \in WrapPrefixes : rpc.err.msg = p \o rpc.cause.msg
           /\ rpc.fn = "retrieve" => rpc.val = ""
      /\ ExpectedFailure = "" => rpc.err = NilErr
      /\ rpc.fn = "retrieve" \/ (rpc.err # NilErr /\ rpc.fault # "lost") =>
           server.store = rpc.before

\* A store of storevalue to mykey with the wrong password has failed as
\* unauthenticated, and the server still has myvalue.
C20_Witness ==
    /\ rpc.fn = "store" /\ rpc.password = "wrongpass"
    /\ rpc.key = "mykey" /\ rpc.value = "storevalue"
    /\ rpc.err.msg = "gRPC store call failed: rpc error: code = Unauthenticated desc = invalid password"
    /\ server.store = StorePut(<<>>, "mykey", "myvalue")


\* C21 -- retrieve classifies a timeout: an error of the transport with the
\* deadline of the call elapsed comes back as the empty string and an error
\* that wraps the transport's error as "parameter store operation timed
\* out", whatever value the transport returned; an error with the deadline
\* not elapsed comes back with the transport's value, unchanged; a result
\* without an error is never made a timeout.
C21_TimeoutClassified ==
    \A c \in WireCallers :
        LET w == wire[c] IN
        (w.pc = "done" /\ w.ctxDeadline # NoDeadline) =>
            /\ (w.err # NilErr /\ w.expired) =>
                  /\ w.outVal = ""
                  /\ w.outErr.kind = "wrapped"
                  /\ w.outErr.msg =
                         "parameter store operation timed out: " \o w.err.msg
            /\ (w.err # NilErr /\ ~w.expired) =>
                  /\ w.outVal = w.val
                  /\ w.outErr = w.err
            /\ w.err = NilErr =>
                  /\ w.outVal = w.val
                  /\ w.outErr = NilErr

\* A transport that returned a value and an error after the deadline: the
\* value is gone and the error is the timeout.
C21_Witness ==
    \E c \in WireCallers :
        /\ wire[c].pc = "done"
        /\ wire[c].ctxDeadline # NoDeadline
        /\ wire[c].val # ""
        /\ wire[c].err = TransportErr
        /\ wire[c].expired
        /\ wire[c].outVal = ""
        /\ wire[c].outErr = TimedOutErrorf(TransportErr)


\* C22 -- a remote retrieve that failed because its deadline elapsed makes
\* setValueIfEmpty log the timeout line and not the "Failed to retrieve"
\* line, every other error makes it log the "Failed to retrieve" line, and
\* in both cases the call goes on to the environment lookup.
C22_TimeoutLogged ==
    \A c \in WireCallers :
        LET w == wire[c] IN
        (w.pc = "done" /\ w.ctxDeadline # NoDeadline /\ obs[c].remote # "none") =>
            /\ (w.err # NilErr /\ w.expired) => obs[c].log = "timeout"
            /\ (w.err # NilErr /\ ~w.expired /\ w.err # DeadlineExceeded) =>
                  obs[c].log = "failed"
            /\ (w.err # NilErr /\ Over(c)) => EnvCalls(c) = 1


\* C23 -- a gRPC client call that opened a connection closes it before it
\* returns, on every exit path (a response, an RPC error, a nil response,
\* the deadline passing during the RPC): the connection is open only while
\* the call is between dial and its deferred Close, so it is closed when the
\* error is classified, and none is open once Init has returned or panicked.
C23_ConnectionClosed ==
    \A c \in WireCallers :
        /\ wire[c].conn = "open" => wire[c].pc \in {"rpc", "close"}
        /\ wire[c].pc \in {"return", "done"} => wire[c].conn \in {"none", "closed"}
        /\ pc[c] \in {"idle", "getenv", "finish", "returned", "panicked"} =>
               wire[c].conn \in {"none", "closed"}

\* An Init call whose RPC was aborted by the deadline and that panicked in
\* the end: its connection had been opened and is closed.
C23_Witness ==
    \E c \in WireCallers :
        /\ pc[c] = "panicked"
        /\ wire[c].expired
        /\ wire[c].err = RetrieveReturn("", DeadlineStatusErr).err
        /\ wire[c].outErr = TimedOutErrorf(wire[c].err)
        /\ wire[c].conn = "closed"


\* The caller is in no call.
AtRest(c) == pc[c] \in {"idle", "returned", "panicked"}

\* C24 -- every remote call runs under a deadline and so ends: the retrieve
\* of Init runs its transport under a context whose deadline is the timeout
\* of the endpoint, a Grpc* function runs its RPC under the deadline of the
\* caller's context when there is one and under the default of 5 seconds
\* otherwise, and every call of Init (and of the function itself) that has
\* begun returns or panics in the end, whether the server answers or not.
C24_CallsTerminate ==
    /\ [](\A c \in WireCallers :
            InFlight(wire[c]) =>
                /\ wire[c].deadline # NoDeadline
                /\ pc[c] = "retrieve" =>
                       /\ wire[c].ctxDeadline = endpoint.timeout
                       /\ wire[c].deadline = endpoint.timeout
                /\ wire[c].ctxDeadline = NoDeadline =>
                       wire[c].deadline = defaultGrpcTimeout)
    /\ \A c \in WireCallers : (~AtRest(c)) ~> AtRest(c)

\* A call made with context.Background() that ran under the default
\* deadline, was never answered and ended when the deadline passed.
C24_Witness ==
    \E c \in WireCallers :
        /\ wire[c].pc = "done"
        /\ wire[c].ctxDeadline = NoDeadline
        /\ wire[c].deadline = defaultGrpcTimeout
        /\ wire[c].expired
        /\ wire[c].err = RetrieveReturn("", DeadlineStatusErr).err


\* The material of a client configuration loads: GetData gives it without
\* an error and it is not empty.
Loads(cs) == GetData(cs, files).err = NilErr /\ Len(GetData(cs, files).data) > 0

\* C25 -- GrpcSimpleRetrieveWithMTLS asks for the client certificate, then
\* the client key, then the CA certificate, and dials only after that: when
\* one of the three cannot be read or is empty, it returns the error that
\* names the first such material and the dial function is not called; the
\* dial function is called only when all three were loaded.
C25_LoadBeforeDial ==
    certCall.fn = "GrpcSimpleRetrieveWithMTLS" =>
        LET cfg  == certCall.clientConfig
            ops  == certCall.ops
            full == <<"ClientCert", "ClientKey", "CACert", "dial">>
            dialled == \E i \in 1..Len(ops) : ops[i] = "dial"
        IN  /\ Len(ops) \in 1..4
            /\ ops = SubSeq(full, 1, Len(ops))
            /\ dialled =>
                  Loads(cfg.ClientCert) /\ Loads(cfg.ClientKey) /\ Loads(cfg.CACert)
            /\ ~Loads(cfg.ClientCert) =>
                  /\ ops = <<"ClientCert">>
                  /\ certCall.err = LoadMaterial(cfg.ClientCert, files,
                         "client certificate", "Client certificate").err
                  /\ certCall.err # NilErr
            /\ (Loads(cfg.ClientCert) /\ ~Loads(cfg.ClientKey)) =>
                  /\ ops = <<"ClientCert", "ClientKey">>
                  /\ certCall.err = LoadMaterial(cfg.ClientKey, files,
                         "client key", "Client key").err
                  /\ certCall.err # NilErr
            /\ (Loads(cfg.ClientCert) /\ Loads(cfg.ClientKey) /\ ~Loads(cfg.CACert)) =>
                  /\ ~dialled
                  /\ certCall.err # NilErr
                  /\ Len(ops) = 3 =>
                         certCall.err = LoadMaterial(cfg.CACert, files,
                             "CA certificate", "CA certificate").err

\* The client certificate and the key load, the file of the CA certificate
\* is not there: the call ends with that error, after three loads and no
\* dial.
C25_Witness ==
    /\ certCall.fn = "GrpcSimpleRetrieveWithMTLS"
    /\ certCall.clientConfig.CACert = [FilePath |-> "ca.crt", Bytes |-> <<>>]
    /\ ~files["ca.crt"].exists
    /\ certCall.ops = <<"ClientCert", "ClientKey", "CACert">>
    /\ certCall.err =
           WrapErrorf("failed to get CA certificate data: ",
               WrapErrorf("failed to read certificate/key from ca.crt: ",
                   ReadFile(files, "ca.crt").err))


\* C26 -- CertificateSource.GetData resolves by a fixed priority: Bytes when
\* it is not empty, whatever FilePath is and with no file read; otherwise
\* the content of the file at FilePath when FilePath is not empty, or the
\* wrapped error of the read when that file cannot be read; otherwise, with
\* nothing provided, empty data and no error.
C26_GetDataPriority ==
    certCall.fn = "GetData" =>
        LET cs == certCall.cs IN
        /\ Len(cs.Bytes) > 0 =>
              /\ certCall.data = cs.Bytes
              /\ certCall.err = NilErr
              /\ certCall.read = <<>>
        /\ (Len(cs.Bytes) = 0 /\ cs.FilePath # "") =>
              /\ certCall.read = <<cs.FilePath>>
              /\ files[cs.FilePath].exists =>
                    /\ certCall.data = files[cs.FilePath].data
                    /\ certCall.err = NilErr
              /\ ~files[cs.FilePath].exists =>
                    /\ certCall.data = <<>>
                    /\ certCall.err =
                           WrapErrorf("failed to read certificate/key from "
                                        \o cs.FilePath \o ": ",
                                      ReadFile(files, cs.FilePath).err)
                    /\ certCall.err # NilErr
        /\ ~IsProvided(cs) =>
              /\ certCall.data = <<>>
              /\ certCall.err = NilErr
              /\ certCall.read = <<>>

\* A source with bytes and with the path of a file that holds something
\* else: the bytes are returned and the file is not read.
C26_Witness ==
    /\ certCall.fn = "GetData"
    /\ certCall.cs = [FilePath |-> "client.crt", Bytes |-> ValidPEM]
    /\ files["client.crt"] = FileOf(NotPEM)
    /\ certCall.data = ValidPEM
    /\ certCall.read = <<>>


\* C27 -- within one Init call the environment variable is looked up only
\* after the remote retrieve has been called and has returned with an error
\* or with an empty value: no step reads the environment before the
\* retrieve, without it, or after it provided a value.
C27_EnvAfterRemote ==
    [][(\A c \in Callers :
          obs'[c].getenv > obs[c].getenv =>
              /\ pc[c] = "getenv"
              /\ RemoteCalls(c) = 1
              /\ obs[c].remote \in {"empty", "timeout", "error"}
              /\ obs'[c].remote = obs[c].remote
              /\ RemoteCalls(c)' = 1)]_vars

\* The retrieve failed and the environment has then been read.
C27_Witness ==
    \E c \in Callers :
        /\ pc[c] = "finish"
        /\ RemoteCalls(c) = 1
        /\ obs[c].remote = "error"
        /\ obs[c].getenv = 1
        /\ obs[c].envValue # ""


\* C28 -- an Init call that fails fatally leaves its slot as it was before
\* the call: the step that ends a call whose resolution returned an error is
\* the panic, it writes no slot, and the value of the slot is still empty
\* after it, whatever the transport had returned.
C28_FatalLeavesSlot ==
    [][(\A c \in WireCallers :
          (pc[c] = "finish" /\ frame[c].initErr # NilErr /\ pc'[c] # "finish") =>
              /\ pc'[c] = "panicked"
              /\ config' = config
              /\ ~obs'[c].wrote
              /\ obs'[c].pre = ""
              /\ obs'[c].post = ""
              /\ config'[frame[c].slot].ParameterStoreValue = "")]_vars

\* The transport returned a value together with an error, the environment
\* had nothing, Init panicked: the slot is empty.
C28_Witness ==
    \E c \in WireCallers :
        /\ pc[c] = "panicked"
        /\ wire[c].pc = "done"
        /\ wire[c].val # ""
        /\ wire[c].err # NilErr
        /\ obs[c].getenv = 1
        /\ ~obs[c].wrote
        /\ config[obs[c].slot].ParameterStoreValue = ""


\* C29 -- Init writes at most the ParameterStoreValue field of its slot: in
\* every step every slot keeps its key, its secret, its environment variable
\* name, its use-empty flag and its certificate paths, and a slot whose
\* value changes is the slot of the call that takes the step.
C29_OnlyValueWritten ==
    [][(\A s \in Slots :
          /\ config'[s] =
                 [config[s] EXCEPT !.ParameterStoreValue = NextValue(s)]
          /\ config'[s] # config[s] =>
                 \E c \in Callers :
                     /\ frame[c].slot = s
                     /\ pc[c] = "finish"
                     /\ pc'[c] = "returned"
                     /\ \A t \in Slots \ {s} : config'[t] = config[t])]_vars

\* A slot with certificate paths has been given its value, and the other
\* slot is still as the application built it.
C29_Witness ==
    \E c \in Callers :
        /\ pc[c] = "returned"
        /\ obs[c].wrote
        /\ obs[c].slot = "APIKey"
        /\ config["APIKey"] =
               ParameterStoreConfig("APIKey", "value-from-env", FALSE,
                                    <<"client.crt", "client.key", "ca.crt">>)
        /\ config["DBPassword"] =
               ParameterStoreConfig("DBPassword", "", TRUE, <<"client.crt", "", "">>)


\* C30 -- no silent downgrade to plaintext: an Init call retrieves over the
\* plain transport only when none of the three certificate materials of its
\* slot is set, and when at least one of them is set the retrieve is made
\* over mTLS, or refused with an error and no transport called.
C30_NoSilentDowngrade ==
    \A c \in Callers :
        obs[c].slot # "" =>
            LET cfg    == config[obs[c].slot]
                anySet == cfg.ClientCertFile # "" \/ cfg.ClientKeyFile # ""
                              \/ cfg.CACertFile # ""
            IN  /\ obs[c].plain > 0 => ~anySet
                /\ (anySet /\ obs[c].remote # "none") =>
                       obs[c].mtls = 1 /\ obs[c].plain = 0

====
